---- MODULE Spec2Model ----
(***************************************************************************)
(* The incremental cache-synchronisation pipeline of hyperliquid-stats     *)
(* (src/scripts/main.py): watermark read, date enumeration, per-partition  *)
(* fetch / raw load / aggregation, alerts, end-of-table consistency check, *)
(* and the aggregation of one trades file taken on its own.                *)
(* Dates are day numbers; a raw timestamp is day * HoursPerDay + hour.     *)
(***************************************************************************)
EXTENDS Integers, Sequences, FiniteSets, TLC

\* ------------------------------------------------------------------ bounds
\* number of times main() is started
MaxRuns == 2
\* number of midnights that pass while the model runs
MaxTicks == 1
\* number of incidents the environment produces: a transient failure of a
\* fetch, load, transform, catalog or Slack call, or a header-only csv
MaxFaults == 1
\* the same number for a configuration of flat-daily datasets only
MaxFlatFaults == 2
\* flat objects exist from BucketDays days before the first day on, the
\* order-book objects from one day later
BucketDays == 1
\* rows of a flat payload that is not header-only
MaxRows == 2
\* coins of the asset catalog
MaxAssets == 1
\* raw rows of the trades file that is aggregated on its own
MaxTrades == 3

\* ------------------------------------------------------- program constants
\* datetime.timedelta(days=30): the lookback seeded for an empty cache table
LookbackDays == 30
\* range(24): the hourly partitions of one order-book date
HoursPerDay == 24

\* the first modelled day, late enough for the lookback to stay positive
Day0 == LookbackDays + 2

\* SQL NULL / Python None: the scalar of max(time) over an empty table;
\* every date and timestamp is positive
None == 0

\* keys of table_to_file_name_map
FlatTables ==
    {"non_mm_trades", "non_mm_ledger_updates", "liquidations", "funding",
     "account_values", "asset_ctxs"}
AllTables == FlatTables \cup {"market_data"}

table_to_file_name_map ==
    [t \in AllTables |->
        IF t = "non_mm_ledger_updates" THEN "ledger_updates"
        ELSE IF t = "non_mm_trades" THEN "non_mm_trades" ELSE t]

\* response.json()["universe"], enumerated in order: the first MaxAssets coins
Universe == SubSeq(<<"BTC", "ETH", "SOL">>, 1, MaxAssets)

\* config["tables"] values the model starts from
Configs == {<<"market_data", "funding">>}
\* config["tables"] values without the order-book dataset
FlatConfigs == {<<"funding", "liquidations">>}

VARIABLES
    today,          \* datetime.date.today()
    slack_token,    \* config["slack_token"] is non-empty
    tables,         \* config["tables"]
    raw,            \* raw table of each flat dataset: sequence of rows
    cache,          \* <table>_cache of each dataset: sequence of rows
    book_raw,       \* a table named market_data exists (left by an older version)
    bucket,         \* flat objects downloaded so far, with their row count
    tmp,            \* files present under ../tmp
    pc,             \* position of main()
    asset_coin_map, \* main's local: the catalog fetched at the start
    ti,             \* index of the table of the outer loop
    latest_date,    \* main's local latest_date
    dates,          \* main's local dates
    di,             \* index into dates[1:]
    hour,           \* i of range(24)
    ai,             \* index into asset_coin_map.values()
    alerts,         \* calls of send_alert in this run, with their outcome
    result,         \* outcome of every process_file call so far, per table
    runNo,          \* number of main() started so far
    runDays,        \* the day each run started on
    runEnds,        \* how each earlier run ended: "done" or "crashed"
    commitLog,      \* every cache to_sql that appended rows: table, date, run, day
    attempted,      \* per table: the process_file calls of this run, in order
    lagging,        \* flat tables whose cache was behind the raw when the run began
    checked,        \* tables whose lines 382-387 this run has executed, in order
    faults,         \* incidents produced so far
    budget,         \* incidents the environment produces at most
    ticks           \* midnights passed so far

\* update_cache_tables applied to one non_mm_trades file, outside any run
VARIABLES
    df,             \* pd.read_csv of the file: the raw trade rows in file order
    agg_date,       \* the date argument of update_cache_tables
    df_agg          \* the rows handed to to_sql("non_mm_trades_cache")

\* calculate_slippage applied to one order-book snapshot, outside any run
VARIABLES
    row,            \* the snapshot: its levels [bids, asks] and its mid
    slippage        \* per nominal value, the locals of the call at its return

\* several instances of main() started on one database and one ../tmp
VARIABLES
    proc            \* per instance: its position, its locals, what it committed

\* the response cache of the API (src/app.py) in front of the database
VARIABLES
    response_cache, \* cache = TTLCache(...): per key, the entry stored last
    db_rows,        \* rows of non_mm_trades_cache, one user and one day each
    now,            \* the timer of the TTLCache
    served          \* the request served last: what it found, did and returned

\* the state of the pipeline
pipe ==
    <<today, slack_token, tables, raw, cache, book_raw, bucket, tmp, pc,
      asset_coin_map, ti, latest_date, dates, di, hour, ai, alerts, result,
      runNo, runDays, runEnds, commitLog, attempted, lagging, checked, faults,
      budget, ticks>>

\* the state outside the single sequence of runs
api == <<response_cache, db_rows, now, served>>
pure == <<df, agg_date, df_agg, row, slippage, proc, api>>

vars == <<pipe, pure>>

\* ----------------------------------------------------------------- helpers
Range(s) == {s[i] : i \in 1..Len(s)}

MaxOf(S) == CHOOSE m \in S : \A x \in S : x <= m

\* str(ts)[:10]: the date part of a timestamp
DateOf(ts) == ts \div HoursPerDay

\* SELECT max(time) FROM table
get_latest_date(tbl) ==
    IF tbl = <<>> THEN None ELSE MaxOf({tbl[i].time : i \in 1..Len(tbl)})

\* generate_dates with range(days) for range(days + 1): today is left out
generate_dates_short(start_date, end_date) ==
    [x \in 1..(IF end_date >= start_date THEN end_date - start_date ELSE 0)
        |-> start_date + (x - 1)]

\* range((end_date - start_date).days + 1) shifted by start_date
generate_dates(start_date, end_date) ==
    [x \in 1..(IF end_date >= start_date THEN end_date - start_date + 1 ELSE 0)
        |-> start_date + (x - 1)]

\* ------------------------------------------------------------ environment
\* first date whose objects exist in the bucket; earlier keys are missing
BucketFirst(table_name) ==
    IF table_name = "market_data" THEN Day0 - BucketDays + 1 ELSE Day0 - BucketDays

\* f"{table_name}/{date}.csv.lz4" and f"{table_name}/{date}/{i}/l2Book/{asset}.lz4"
FileName(table_name, date, i, asset) == <<table_name, date, i, asset>>
FlatFile(table_name, date) == FileName(table_name, date, -1, "")

\* "market_data" in file_name
IsMarketFile(file_name) == file_name[1] = "market_data"

\* group-by keys carried by the rows of a flat payload, in file order
RowKeys == <<"k1", "k1", "k2">>
\* hour of day of the rows of a flat payload, in file order
RowHours == <<0, 1, 1>>

\* the csv of a flat partition with n rows: every row is timed inside its date
FlatPayload(date, n) ==
    [i \in 1..n |->
        [time |-> date * HoursPerDay + RowHours[((i - 1) % 3) + 1],
         key |-> RowKeys[((i - 1) % 3) + 1]]]

\* the snapshot stream of one (date, hour, asset) object
BookPayload(date, i, asset) ==
    <<[time |-> date * HoursPerDay + i, key |-> asset],
      [time |-> date * HoursPerDay + i, key |-> asset]>>

\* ------------------------------------------------------------- the tables
\* to_sql with if_exists="replace" for "append"
to_sql_replace(tbl, rows) == rows

\* df.to_sql(table, if_exists="append")
to_sql(tbl, rows) == tbl \o rows

\* load_data_to_db taking the early return for every file
load_data_to_db_skip(tbl, file_name, payload) == tbl

\* load_data_to_db: nothing for an order-book file, else the csv appended
load_data_to_db(tbl, file_name, payload) ==
    IF IsMarketFile(file_name) THEN tbl ELSE to_sql(tbl, payload)

\* Aggregate without the groupby: one cache row per payload row
Aggregate_ungrouped(payload, date) ==
    [i \in 1..Len(payload) |-> [time |-> date, key |-> payload[i].key]]

\* df.groupby(keys).agg(...).reset_index() with df_agg["time"] = date:
\* one row per distinct key, in key order, stamped with the partition date
Aggregate(payload, date) ==
    LET present == {payload[i].key : i \in 1..Len(payload)}
        KeyOrder == <<"BTC", "ETH", "SOL", "k1", "k2">>
        keep(k) == k \in present
        ks == SelectSeq(KeyOrder, keep)
    IN [i \in 1..Len(ks) |-> [time |-> date, key |-> ks[i]]]

\* update_cache_tables / update_market_data_cache: aggregate and append
update_cache_tables(tbl, file_name, date, payload) ==
    to_sql(tbl, Aggregate(payload, date))

\* dates[0:] for dates[1:]: the watermark date is processed again
DatesToProcess_all(ds) == ds

\* dates[1:]
DatesToProcess(ds) == IF ds = <<>> THEN <<>> ELSE Tail(ds)

\* ------------------------------------------------------------------ alerts
\* what one send_alert call can do: nothing without a token; else the message
\* is posted, or SlackApiError is caught, or another exception propagates
AlertChoices == IF slack_token THEN {"sent", "slack_error", "raise"} ELSE {"noop"}

IsFault(o) == o \in {"fetch", "load", "transform", "slack_error", "raise", "catalog"}
Cost(o) == IF IsFault(o) THEN 1 ELSE 0
\* my_bucket.download_file: an object keeps its content, so a file seen
\* before has the rows it had; a new one is header-only or has MaxRows rows
Known(file_name) == {b \in bucket : b.file = file_name}
PayloadChoices(file_name, o) ==
    IF o = "fetch" THEN {0}
    ELSE IF Known(file_name) # {} THEN {b.rows : b \in Known(file_name)}
    ELSE {0, MaxRows}
\* a header-only csv is an incident too
PayloadCost(file_name, o, n) ==
    IF o # "fetch" /\ Known(file_name) = {} /\ n = 0 THEN 1 ELSE 0

Alert(kind, table, date, other, outcome) ==
    [kind |-> kind, table |-> table, date |-> date, other |-> other,
     outcome |-> outcome]

\* ---------------------------------------------------------------- position
CurTable == tables[ti]
CurDate == DatesToProcess(dates)[di]
IsMarket(t) == table_to_file_name_map[t] = "market_data"

\* -------------------------------------------------------------------- Init
\* the rows an earlier, complete run left for date w
SeedRaw(w) == IF w = None THEN <<>> ELSE FlatPayload(w, 1)
SeedCache(t, w) ==
    IF w = None THEN <<>>
    ELSE IF IsMarket(t)
    THEN [n \in 1..(HoursPerDay * Len(Universe)) |->
            [time |-> w, key |-> Universe[((n - 1) % Len(Universe)) + 1]]]
    ELSE Aggregate(FlatPayload(w, 1), w)

\* the state main() is first started in: a configuration of cfgs, every
\* configured table left at a date of marks by a complete run (None: empty)
Start(cfgs, b, marks, tokens) ==
    /\ today = Day0
    /\ slack_token \in tokens
    /\ tables \in cfgs
    /\ budget = b
    /\ \E w \in [AllTables -> marks \cup {None}] :
        /\ \A t \in Range(tables) : w[t] \in marks
        /\ \A t \in AllTables : t \notin Range(tables) => w[t] = None
        /\ "market_data" \in Range(tables) => w["market_data"] # None
        /\ book_raw \in
             (IF "market_data" \in Range(tables) THEN BOOLEAN ELSE {FALSE})
        /\ raw = [t \in AllTables |->
                    IF IsMarket(t) /\ ~book_raw THEN <<>> ELSE SeedRaw(w[t])]
        /\ cache = [t \in AllTables |-> SeedCache(t, w[t])]
    /\ bucket = {}
    /\ tmp = {}
    /\ pc = "idle"
    /\ asset_coin_map = <<>>
    /\ ti = 1
    /\ latest_date = None
    /\ dates = <<>>
    /\ di = 1
    /\ hour = 0
    /\ ai = 1
    /\ alerts = {}
    /\ result = [t \in AllTables |-> {}]
    /\ runNo = 0
    /\ runDays = <<>>
    /\ runEnds = <<>>
    /\ commitLog = {}
    /\ attempted = [t \in AllTables |-> <<>>]
    /\ lagging = {}
    /\ checked = <<>>
    /\ faults = 0
    /\ ticks = 0

\* no trades file is being aggregated outside the runs
NoTrades ==
    /\ df = <<>>
    /\ agg_date = None
    /\ df_agg = <<>>

\* no snapshot is being priced outside the runs
NoSnapshot ==
    /\ row = [levels |-> <<<<>>, <<>>>>, mid |-> [num |-> 0, den |-> 1]]
    /\ slippage = <<>>

\* no second instance of main() is started
NoInstances == proc = <<>>

\* the keys of the endpoints total_users and daily_usd_volume without filters
Keys == {"total_users", "daily_usd_volume"}

\* what an endpoint stores when the table has no row: 0 and []
NoData(key) == IF key = "total_users" THEN 0 ELSE <<>>

\* an empty TTLCache, and no request served yet
EmptyCache ==
    /\ response_cache =
         [k \in Keys |-> [present |-> FALSE, data |-> NoData(k), expires |-> 0]]
    /\ now = 0
    /\ served = [key |-> "", had |-> FALSE, queried |-> FALSE]

\* the API serves no request
NoRequests == EmptyCache /\ db_rows = 0

NoFile == NoTrades /\ NoSnapshot /\ NoInstances /\ NoRequests

Init == Start(Configs, MaxFaults, {None, Day0 - 2}, BOOLEAN) /\ NoFile

\* the same for a configuration of flat-daily datasets, none of them empty
InitFlat ==
    Start(FlatConfigs, MaxFlatFaults, {Day0 - 2}, BOOLEAN) /\ NoFile

\* ----------------------------------------------------------------- actions
\* midnight passes, between two runs or between two datasets of a run
Tick ==
    /\ pc \in {"idle", "done", "crashed", "table"}
    /\ ticks < MaxTicks
    /\ ticks' = ticks + 1
    /\ today' = today + 1
    /\ UNCHANGED <<slack_token, tables, book_raw, bucket, raw, cache, tmp,
                    pc, asset_coin_map, ti, latest_date, dates, di, hour, ai,
                    alerts, result, runNo, runDays, runEnds, commitLog,
                    lagging, attempted, checked, faults, budget>>
    /\ UNCHANGED pure

\* str(get_latest_date(db_uri, table))[:10] of a raw table that has rows
RawDate(t) == IF raw[t] = <<>> THEN None ELSE DateOf(get_latest_date(raw[t]))

\* both tables have a maximum date and the cache's is the earlier one
CacheBehindRaw(t) ==
    /\ cache[t] # <<>>
    /\ raw[t] # <<>>
    /\ get_latest_date(cache[t]) < RawDate(t)

\* main(): the configuration is read and the asset catalog fetched once
StartRun ==
    /\ pc \in {"idle", "done", "crashed"}
    /\ runNo < MaxRuns
    /\ runNo' = runNo + 1
    /\ runDays' = Append(runDays, today)
    /\ runEnds' = IF runNo = 0 THEN runEnds ELSE Append(runEnds, pc)
    /\ alerts' = {}
    /\ attempted' = [t \in AllTables |-> <<>>]
    /\ lagging' = {t \in FlatTables : CacheBehindRaw(t)}
    /\ checked' = <<>>
    /\ \E o \in {"ok", "catalog"} :
        /\ faults + Cost(o) <= budget
        /\ faults' = faults + Cost(o)
        /\ IF o = "ok"
           THEN /\ asset_coin_map' = Universe
                /\ ti' = 1
                /\ pc' = "table"
           ELSE /\ pc' = "crashed"
                /\ UNCHANGED <<asset_coin_map, ti>>
    /\ UNCHANGED <<today, slack_token, tables, book_raw, bucket, raw, cache,
                    tmp, latest_date, dates, di, hour, ai, result, commitLog,
                    budget, ticks>>
    /\ UNCHANGED pure

\* the watermark read from the raw table: the "_cache" suffix forgotten
Watermark_raw(t) ==
    IF raw[t] = <<>> THEN None ELSE DateOf(get_latest_date(raw[t]))

\* get_latest_date(db_uri, f'{table}_cache') of line 345
Watermark(t) == get_latest_date(cache[t])

\* where the loop over dates[1:] goes after position d of ds
AfterDate(t, ds, d) ==
    IF d < Len(DatesToProcess(ds))
    THEN [pc |-> IF IsMarket(t) THEN "book" ELSE "date", di |-> d + 1]
    ELSE [pc |-> "check", di |-> d]

\* the seed with timedelta(days=7) for timedelta(days=30)
StartDate_week(got, day) == IF got # None THEN got ELSE day - 7

\* main lines 346-349: the watermark read, or the lookback seed for None
StartDate(got, day) == IF got # None THEN got ELSE day - LookbackDays

\* main lines 344-354: watermark, lookback seed, date list
BeginTable ==
    /\ pc = "table"
    /\ LET t == CurTable
           got == Watermark(t)
           start == StartDate(got, today)
           ds == generate_dates(start, today)
       IN /\ latest_date' = start
          /\ dates' = ds
          /\ attempted' = [attempted EXCEPT ![t] = <<>>]
          /\ hour' = 0
          /\ ai' = 1
          /\ IF Len(ds) = 0
             THEN \E a \in AlertChoices :
                    /\ faults + Cost(a) <= budget
                    /\ faults' = faults + Cost(a)
                    /\ alerts' = alerts \cup {Alert("nothing", t, start, None, a)}
                    /\ pc' = IF a = "raise" THEN "crashed" ELSE "check"
                    /\ di' = 0
             ELSE /\ pc' = AfterDate(t, ds, 0).pc
                  /\ di' = AfterDate(t, ds, 0).di
                  /\ UNCHANGED <<alerts, faults>>
    /\ UNCHANGED <<today, slack_token, tables, book_raw, bucket, raw, cache,
                    tmp, asset_coin_map, ti, result, runNo, runDays, runEnds,
                    commitLog, lagging, checked, budget, ticks>>
    /\ UNCHANGED pure

\* what process_file can do for the object of a date: a key the bucket
\* lacks cannot be fetched; any other step can fail transiently
PartitionOutcomes(t, date) ==
    IF date < BucketFirst(table_to_file_name_map[t]) THEN {"fetch"}
    ELSE IF IsMarket(t) THEN {"ok", "fetch", "transform"}
    ELSE {"ok", "fetch", "load", "transform"}

PartitionCost(t, date, o) ==
    IF date < BucketFirst(table_to_file_name_map[t]) THEN 0 ELSE Cost(o)

\* process_file with update_cache_tables called before load_data_to_db
process_file_cache_first(rawT, cacheT, files, file_name, date, payload, o) ==
    [raw |-> IF o = "ok" THEN load_data_to_db(rawT, file_name, payload)
             ELSE rawT,
     cache |-> IF o \in {"ok", "load"}
               THEN update_cache_tables(cacheT, file_name, date, payload)
               ELSE cacheT,
     tmp |-> IF o = "fetch" THEN files
             ELSE IF o = "ok" THEN files \ {file_name}
             ELSE files \cup {file_name}]

\* process_file: download, raw load, cache update, removal of the tmp file;
\* o names the step that raises ("ok": none)
process_file(rawT, cacheT, files, file_name, date, payload, o) ==
    LET downloaded == IF o = "fetch" THEN files ELSE files \cup {file_name}
        loaded == IF o \in {"fetch", "load"} THEN rawT
                  ELSE load_data_to_db(rawT, file_name, payload)
        updated == IF o = "ok"
                   THEN update_cache_tables(cacheT, file_name, date, payload)
                   ELSE cacheT
    IN [raw |-> loaded,
        cache |-> updated,
        tmp |-> IF o = "ok" THEN downloaded \ {file_name} ELSE downloaded]

Commit(t, date, before, after) ==
    IF Len(after) > Len(before)
    THEN {[table |-> t, date |-> date, run |-> runNo, day |-> today]}
    ELSE {}

\* main lines 374-380: the "completed" alert inside the try, the "failed"
\* alert inside the except; a is the outcome of the first, b of the second
AlertTail(ok, t, date, a, b) ==
    [alerts |->
        (IF ok THEN {Alert("completed", t, date, None, a)} ELSE {})
        \cup (IF ~ok \/ a = "raise"
              THEN {Alert("failed", t, date, None, b)} ELSE {}),
     crashed |-> (~ok \/ a = "raise") /\ b = "raise"]

FirstAlertChoices(ok) == IF ok THEN AlertChoices ELSE {"skip"}
SecondAlertChoices(ok, a) ==
    IF ~ok \/ a = "raise" THEN AlertChoices ELSE {"skip"}

\* one iteration of the loop over dates[1:] for a flat-daily dataset
ProcessFlatDate ==
    /\ pc = "date"
    /\ LET t == CurTable
           date == CurDate
           file_name == FlatFile(table_to_file_name_map[t], date)
       IN \E o \in PartitionOutcomes(t, date) :
          \E n \in PayloadChoices(file_name, o) :
          \E a \in FirstAlertChoices(o = "ok") :
          \E b \in SecondAlertChoices(o = "ok", a) :
            LET r == process_file(raw[t], cache[t], tmp, file_name, date,
                                  FlatPayload(date, n), o)
                tail == AlertTail(o = "ok", t, date, a, b)
                cost == PartitionCost(t, date, o) + PayloadCost(file_name, o, n)
                          + Cost(a) + Cost(b)
            IN /\ faults + cost <= budget
               /\ faults' = faults + cost
               /\ raw' = [raw EXCEPT ![t] = r.raw]
               /\ cache' = [cache EXCEPT ![t] = r.cache]
               /\ tmp' = r.tmp
               /\ bucket' = IF o = "fetch" THEN bucket
                            ELSE bucket \cup {[file |-> file_name, rows |-> n]}
               /\ commitLog' = commitLog \cup Commit(t, date, cache[t], r.cache)
               /\ result' = [result EXCEPT ![t] = @ \cup
                    {[run |-> runNo, date |-> date, hour |-> -1, asset |-> "",
                      outcome |-> o, rows |-> n]}]
               /\ attempted' = [attempted EXCEPT ![t] = Append(@, file_name)]
               /\ alerts' = alerts \cup tail.alerts
               /\ IF tail.crashed
                  THEN pc' = "crashed" /\ di' = di
                  ELSE /\ pc' = AfterDate(t, dates, di).pc
                       /\ di' = AfterDate(t, dates, di).di
    /\ UNCHANGED <<today, slack_token, tables, book_raw, asset_coin_map, ti,
                    latest_date, dates, hour, ai, runNo, runDays, runEnds,
                    lagging, checked, budget, ticks>>
    /\ UNCHANGED pure

\* one (date, hour, asset) partition of the order-book dataset: the inner
\* try/except prints and goes on
ProcessBookPartition ==
    /\ pc = "book"
    /\ LET t == CurTable
           date == CurDate
           asset == asset_coin_map[ai]
           file_name == FileName(table_to_file_name_map[t], date, hour, asset)
           last == ai = Len(asset_coin_map)
       IN \E o \in PartitionOutcomes(t, date) :
            LET r == process_file(raw[t], cache[t], tmp, file_name, date,
                                  BookPayload(date, hour, asset), o)
                cost == PartitionCost(t, date, o)
            IN /\ faults + cost <= budget
               /\ faults' = faults + cost
               /\ raw' = [raw EXCEPT ![t] = r.raw]
               /\ cache' = [cache EXCEPT ![t] = r.cache]
               /\ tmp' = r.tmp
               /\ commitLog' = commitLog \cup Commit(t, date, cache[t], r.cache)
               /\ result' = [result EXCEPT ![t] = @ \cup
                    {[run |-> runNo, date |-> date, hour |-> hour,
                      asset |-> asset, outcome |-> o,
                      rows |-> Len(BookPayload(date, hour, asset))]}]
               /\ attempted' = [attempted EXCEPT ![t] = Append(@, file_name)]
               /\ ai' = IF last THEN 1 ELSE ai + 1
               /\ hour' = IF last THEN hour + 1 ELSE hour
               /\ pc' = IF last /\ hour + 1 = HoursPerDay THEN "endbook" ELSE "book"
    /\ UNCHANGED <<today, slack_token, tables, book_raw, bucket,
                    asset_coin_map, ti, latest_date, dates, di, alerts, runNo,
                    runDays, runEnds, lagging, checked, budget, ticks>>
    /\ UNCHANGED pure

\* main lines 374-380 after the hour x asset loops of an order-book date
FinishBookDate ==
    /\ pc = "endbook"
    /\ LET t == CurTable
           date == CurDate
       IN \E a \in FirstAlertChoices(TRUE) :
          \E b \in SecondAlertChoices(TRUE, a) :
            LET tail == AlertTail(TRUE, t, date, a, b)
                cost == Cost(a) + Cost(b)
            IN /\ faults + cost <= budget
               /\ faults' = faults + cost
               /\ alerts' = alerts \cup tail.alerts
               /\ hour' = 0
               /\ ai' = 1
               /\ IF tail.crashed
                  THEN pc' = "crashed" /\ di' = di
                  ELSE /\ pc' = AfterDate(t, dates, di).pc
                       /\ di' = AfterDate(t, dates, di).di
    /\ UNCHANGED <<today, slack_token, tables, book_raw, bucket, raw, cache,
                    tmp, asset_coin_map, ti, latest_date, dates, result,
                    runNo, runDays, runEnds, commitLog, lagging, attempted,
                    checked, budget, ticks>>
    /\ UNCHANGED pure

\* main lines 382-387: cache max date against raw max date; the pipeline
\* never creates a raw order-book table, and where none exists the query of
\* its max date raises
CheckTable ==
    /\ pc = "check"
    /\ LET t == CurTable
           cache_max_date == get_latest_date(cache[t])
           raw_max == get_latest_date(raw[t])
           raw_date == IF raw_max = None THEN None ELSE DateOf(raw_max)
           queryRaises == cache_max_date # None /\ IsMarket(t) /\ ~book_raw
           differs == cache_max_date # None /\ cache_max_date # raw_date
           next == IF ti < Len(tables) THEN "table" ELSE "done"
       IN IF queryRaises
          THEN /\ pc' = "crashed"
               /\ UNCHANGED <<alerts, faults, ti>>
          ELSE IF differs
          THEN \E a \in AlertChoices :
                /\ faults + Cost(a) <= budget
                /\ faults' = faults + Cost(a)
                /\ alerts' = alerts \cup
                     {Alert("divergence", t, cache_max_date, raw_date, a)}
                /\ pc' = IF a = "raise" THEN "crashed" ELSE next
                /\ ti' = IF a # "raise" /\ ti < Len(tables) THEN ti + 1 ELSE ti
          ELSE /\ pc' = next
               /\ ti' = IF ti < Len(tables) THEN ti + 1 ELSE ti
               /\ UNCHANGED <<alerts, faults>>
    /\ checked' = Append(checked, CurTable)
    /\ UNCHANGED <<today, slack_token, tables, book_raw, bucket, raw, cache,
                    tmp, asset_coin_map, latest_date, dates, di, hour, ai,
                    result, runNo, runDays, runEnds, commitLog, lagging,
                    attempted, budget, ticks>>
    /\ UNCHANGED pure

Next ==
    \/ Tick
    \/ StartRun
    \/ BeginTable
    \/ ProcessFlatDate
    \/ ProcessBookPartition
    \/ FinishBookDate
    \/ CheckTable

Spec == Init /\ [][Next]_vars

\* main() with a configuration that has no order-book dataset
NextFlat ==
    \/ Tick
    \/ StartRun
    \/ BeginTable
    \/ ProcessFlatDate
    \/ CheckTable

SpecFlat == InitFlat /\ [][NextFlat]_vars

\* ------------------------------------------------------ claim vocabulary
\* main() is inside the loop over dates[1:] of CurTable, or just behind it
InTable == pc \in {"date", "book", "endbook", "check"}
\* main() has returned or died
Finished == runNo >= 1 /\ pc \in {"done", "crashed"}
\* the dates of dates[1:]
ListedDates == Range(DatesToProcess(dates))
CacheDates(t) == {cache[t][i].time : i \in 1..Len(cache[t])}
\* the max(time) that line 345 read was a row of the table, not the seed
WatermarkWasRead == latest_date \in CacheDates(CurTable)
AttemptedIn(t, r, d) == \E x \in result[t] : x.run = r /\ x.date = d
CommittedIn(t, r) == {c \in commitLog : c.table = t /\ c.run = r}
CacheKeys(t) == {cache[t][i].key : i \in 1..Len(cache[t])}
RowsOf(tbl, d, k) == {i \in 1..Len(tbl) : tbl[i].time = d /\ tbl[i].key = k}

\* C1: partial-failure isolation. Once the loop over the dates of a flat
\* dataset is over (or the run has ended), every date listed after a failed
\* date was attempted in this run, the cache holds no row of a failed date,
\* and it holds the rows of every date whose non-empty partition succeeded.
C1_PartialFailureIsolation ==
    (pc \in {"check", "done", "crashed"} /\ runNo >= 1 /\ ~IsMarket(CurTable)) =>
        \A x \in result[CurTable] :
            x.run = runNo =>
              /\ x.outcome # "ok" =>
                   /\ \A d \in ListedDates :
                        d > x.date => AttemptedIn(CurTable, runNo, d)
                   /\ x.date \notin CacheDates(CurTable)
              /\ (x.outcome = "ok" /\ x.rows > 0) =>
                   x.date \in CacheDates(CurTable)

\* C2: a date whose flat partition failed in the previous run is in the
\* partition list of this run, whatever the later dates of that run did.
C2_FailedDateReappears ==
    (InTable /\ runNo >= 2 /\ ~IsMarket(CurTable) /\ WatermarkWasRead) =>
        \A x \in result[CurTable] :
            (x.run = runNo - 1 /\ x.outcome # "ok") => x.date \in ListedDates

\* C3 as stated: a run that follows a completed run on the same day appends
\* no cache row.
C3_SecondRunAppendsNothing ==
    \A c \in commitLog :
        ~(c.run >= 2 /\ runEnds[c.run - 1] = "done" /\ runDays[c.run - 1] = c.day)

\* C3 amended: a run that reads a dataset's watermark equal to today (the
\* earlier run of the day committed its last date) appends no row to that
\* dataset's cache table.
C3_NoAppendAtTodayWatermark ==
    (InTable /\ WatermarkWasRead /\ latest_date = today) =>
        CommittedIn(CurTable, runNo) = {}

\* C3 witness: the second run of a day is behind the (empty) date loop of a
\* dataset whose rows for today the first run committed.
C3_Witness ==
    /\ runNo = 2
    /\ runDays[1] = runDays[2]
    /\ pc = "check"
    /\ WatermarkWasRead
    /\ latest_date = today
    /\ \E c \in CommittedIn(CurTable, 1) : c.date = today

\* C4: monotonic watermark. No step of any run lowers the maximum date of
\* a cache table (an empty table counts as the lowest).
C4_MonotonicWatermark ==
    [][\A t \in AllTables :
         get_latest_date(cache'[t]) >= get_latest_date(cache[t])]_vars

\* C4 witness: a run has ended after it advanced a cache table's maximum
\* date by a commit, with a failed partition in the same run and table.
C4_Witness ==
    /\ Finished
    /\ \E c \in commitLog :
        /\ c.run = runNo
        /\ c.date = get_latest_date(cache[c.table])
        /\ \E x \in result[c.table] : x.run = runNo /\ x.outcome # "ok"

\* C5: for every configured flat-daily dataset, in every state (so before
\* and after every partition), the cache maximum date is not after the raw
\* maximum date.
C5_CacheNotAheadOfRaw ==
    \A t \in Range(tables) :
        ~IsMarket(t) =>
            get_latest_date(cache[t]) <= DateOf(get_latest_date(raw[t]))

\* C5 witness: a flat partition has been loaded and committed, and another
\* one was loaded whose transform failed, leaving the cache behind the raw.
C5_Witness ==
    \E t \in Range(tables) :
        /\ ~IsMarket(t)
        /\ \E x \in result[t] : x.outcome = "ok" /\ x.rows > 0
        /\ \E x \in result[t] : x.outcome = "transform" /\ x.rows > 0
        /\ get_latest_date(cache[t]) < DateOf(get_latest_date(raw[t]))

\* C6: no raw row is appended twice: the raw table of a flat dataset never
\* holds the same payload row at two positions.
C6_NoDuplicateRawRows ==
    \A t \in Range(tables) :
        ~IsMarket(t) =>
            \A i, j \in 1..Len(raw[t]) : i # j => raw[t][i] # raw[t][j]

C8_OneRunPerDate ==
    \A c1, c2 \in commitLog :
        (c1.table = c2.table /\ c1.run < c2.run) => c2.date > c1.date

\* C8 witness: two runs have committed rows to the same cache table.
C8_Witness ==
    \E c1, c2 \in commitLog : c1.table = c2.table /\ c1.run < c2.run

\* the (hour, asset) partitions of date d that committed rows to table t:
\* each commits one row for its coin
FullyCommitted(t, d) ==
    IF IsMarket(t)
    THEN \A n \in 1..Len(Universe) :
            Cardinality(RowsOf(cache[t], d, Universe[n])) >= HoursPerDay
    ELSE d \in CacheDates(t)

\* C9: at the end of a run, the maximum date of every cache table is a date
\* all of whose partitions were committed.
C9_WatermarkFullyCommitted ==
    Finished =>
        \A t \in Range(tables) :
            get_latest_date(cache[t]) # None =>
                FullyCommitted(t, get_latest_date(cache[t]))

AllAttempted ==
    \A d \in ListedDates :
        IF IsMarket(CurTable)
        THEN \A h \in 0..(HoursPerDay - 1) : \A n \in 1..Len(asset_coin_map) :
                \E x \in result[CurTable] :
                    /\ x.run = runNo /\ x.date = d
                    /\ x.hour = h /\ x.asset = asset_coin_map[n]
        ELSE AttemptedIn(CurTable, runNo, d)

\* the step from line 383 sends the alert with both maximum dates
DivergenceAlerted(t) ==
    \E a \in alerts' \ alerts :
        /\ a.kind = "divergence" /\ a.table = t
        /\ a.date = get_latest_date(cache[t]) /\ a.other = RawDate(t)

\* C11: the comparison of lines 382-387 runs once per dataset per run and
\* only after every partition of the dataset was attempted; when it finds
\* the cache maximum date behind the raw maximum date, send_alert is called
\* with both dates and main() goes on to the next dataset (or returns).
C11_DivergenceReported ==
    [][pc = "check" =>
        /\ AllAttempted
        /\ CurTable \notin Range(checked)
        /\ CacheBehindRaw(CurTable) =>
            /\ DivergenceAlerted(CurTable)
            /\ pc' # "crashed"]_vars

\* C12: where no raw order-book table exists, the step of lines 382-387 for
\* market_data does not raise: main() goes on to the dataset configured
\* after market_data, or returns when there is none.
C12_BookCheckNotFatal ==
    [][(pc = "check" /\ IsMarket(CurTable) /\ ~book_raw) =>
        /\ pc' # "crashed"
        /\ ti < Len(tables) => (pc' = "table" /\ ti' = ti + 1)]_vars

\* ------------------------------------------------------------ alert claims
\* main() is still inside the try block of date d of table t
InsideDate(t, d) ==
    /\ pc \in {"date", "book", "endbook"}
    /\ CurTable = t
    /\ CurDate = d

\* send_alert was called in this run with the failure message of (t, d)
FailureAlert(t, d) ==
    \E a \in alerts : a.kind = "failed" /\ a.table = t /\ a.date = d

\* C13: once main() has left the try block of a date, every partition of
\* that date whose process_file raised in this run (flat-daily or one
\* (date, hour, asset) of the order book) has had send_alert called with the
\* failure message of its dataset and date.
C13_FailureAlerted ==
    \A t \in Range(tables) :
        \A x \in result[t] :
            (x.run = runNo /\ x.outcome # "ok" /\ ~InsideDate(t, x.date))
                => FailureAlert(t, x.date)

\* the send_alert calls of the step whose delivery failed
FailedDeliveries ==
    {a \in alerts' \ alerts : a.outcome \in {"slack_error", "raise"}}

\* C14: a step in which the delivery of an alert fails, in whatever way,
\* does not end main(): the loop goes on with the next partition or dataset.
C14_DeliveryFailureSwallowed ==
    [][FailedDeliveries # {} => pc' # "crashed"]_vars

\* ------------------------------------------------------ enumeration claims
\* the object keys of date d in the order of the loops of lines 357-372:
\* one key for a flat-daily dataset, hour-major (hour, asset) for the order book
PartitionsOfDate(t, d, assets) ==
    IF IsMarket(t)
    THEN [n \in 1..(HoursPerDay * Len(assets)) |->
            FileName(table_to_file_name_map[t], d, (n - 1) \div Len(assets),
                     assets[((n - 1) % Len(assets)) + 1])]
    ELSE <<FlatFile(table_to_file_name_map[t], d)>>

\* the keys of the dates first..last, date after date
RECURSIVE Enumerate(_, _, _, _)
Enumerate(t, first, last, assets) ==
    IF first > last THEN <<>>
    ELSE PartitionsOfDate(t, first, assets)
            \o Enumerate(t, first + 1, last, assets)

IsPrefix(s, q) == Len(s) <= Len(q) /\ s = SubSeq(q, 1, Len(s))

\* C15: while a run works on a dataset from start date w (the watermark, or
\* the seed), the partitions it has attempted are, each once and in order,
\* an initial part of the enumeration of the dates w + 1 .. today (one key
\* per date for a flat-daily dataset; every hour 0..23 and catalog asset of
\* a date before the next date for the order book); when the date loop is
\* over they are the whole enumeration.
C15_PartitionEnumeration ==
    InTable =>
        LET e == Enumerate(CurTable, latest_date + 1, today, asset_coin_map)
        IN /\ IsPrefix(attempted[CurTable], e)
           /\ pc = "check" => attempted[CurTable] = e

\* C15 witness: in one run the order-book dataset has been attempted for two
\* dates, hour by hour, and the date loop of a flat dataset with two dates
\* is over.
C15_Witness ==
    /\ pc = "check"
    /\ ~IsMarket(CurTable)
    /\ Len(attempted[CurTable]) = 2
    /\ Len(attempted["market_data"]) = 2 * HoursPerDay * Len(Universe)

\* the dates after the lookback seed through today
LookbackDates == (today - LookbackDays + 1)..today

\* C16: the step of lines 344-354 for a dataset whose cache table is empty
\* does not end main(): it sets the start date to today - 30 days and enters
\* the loop over the dates after it through today; when that loop is over,
\* each of those dates was attempted in this run.
C16_EmptyCacheSeedsLookback ==
    /\ [][(pc = "table" /\ pc' # "table" /\ cache[CurTable] = <<>>) =>
            /\ pc' \in {"date", "book"}
            /\ latest_date' = today - LookbackDays
            /\ Range(DatesToProcess(dates')) = LookbackDates]_vars
    /\ []((pc = "check" /\ latest_date = today - LookbackDays) =>
            \A d \in LookbackDates : AttemptedIn(CurTable, runNo, d))

\* C16 witness: the date loop of a dataset whose start date was seeded is
\* over, all dates of the lookback attempted and the first rows committed.
C16_Witness ==
    /\ pc = "check"
    /\ latest_date = today - LookbackDays
    /\ Len(attempted[CurTable]) = LookbackDays
    /\ CommittedIn(CurTable, runNo) # {}

\* ------------------------------------------------------- watermark claims
\* the process_file calls of table t that the step has added
NewResults(t) == result'[t] \ result[t]

\* C17: a step in which a partition's fetch, load or transform fails leaves
\* the dataset's cache table, and so its maximum date, as it was; a step
\* that changes a cache table's maximum date is a successful partition of
\* the new maximum date.
C17_WatermarkOnlyByCommit ==
    [][\A t \in AllTables :
        /\ (\E x \in NewResults(t) :
                x.outcome \in {"fetch", "load", "transform"}) =>
                /\ cache'[t] = cache[t]
                /\ get_latest_date(cache'[t]) = get_latest_date(cache[t])
        /\ get_latest_date(cache'[t]) # get_latest_date(cache[t]) =>
                \E x \in NewResults(t) :
                    /\ x.outcome = "ok"
                    /\ x.date = get_latest_date(cache'[t])]_vars

\* C17 witness: a partition with rows was loaded into the raw table, its
\* transform failed, and the cache table has no row of its date.
C17_Witness ==
    \E t \in Range(tables) :
        \E x \in result[t] :
            /\ x.outcome = "transform"
            /\ x.rows > 0
            /\ x.date \notin CacheDates(t)
            /\ x.date > get_latest_date(cache[t])

\* every process_file call of this run for CurTable returned normally
AllSucceeded ==
    \A x \in result[CurTable] : x.run = runNo => x.outcome = "ok"

\* C18: when the run before ended with a flat dataset's cache maximum date
\* behind its raw maximum date and every partition of the dataset succeeds
\* in this run, then at the end of the date loop the two maximum dates are
\* equal, and the step of lines 382-387 sends no divergence alert.
C18_DivergenceSelfHeals ==
    /\ []((pc = "check" /\ runNo >= 2 /\ CurTable \in lagging
             /\ AllAttempted /\ AllSucceeded) =>
            get_latest_date(cache[CurTable]) = RawDate(CurTable))
    /\ [][(pc = "check" /\ runNo >= 2 /\ CurTable \in lagging
             /\ AllAttempted /\ AllSucceeded) =>
            \A a \in alerts' \ alerts : a.kind # "divergence"]_vars

\* C18 witness: the first run ended with the cache behind the raw table, and
\* the second run has committed every date after the watermark.
C18_Witness ==
    /\ pc = "check"
    /\ runNo = 2
    /\ CurTable \in lagging
    /\ AllSucceeded
    /\ CommittedIn(CurTable, runNo) # {}
    /\ \E x \in result[CurTable] : x.run = 1 /\ x.outcome = "transform"

\* ------------------------------------------------- the trades aggregation
\* values of the group-by columns of non_mm_trades, each in ascending order
TradeUsers == <<"U1", "U2">>
TradeCoins == <<"BTC">>
TradeSides == <<"A", "B">>
TradeCrossed == <<TRUE>>
TradeSpecials == <<"Na">>
\* values of px and of sz
TradePrices == {100, 102}
TradeSizes == {1, 2}

\* the rows a trades csv can hold; their own time column is of day Day0
TradeRows ==
    [user : Range(TradeUsers), coin : Range(TradeCoins),
     side : Range(TradeSides), crossed : Range(TradeCrossed),
     special_trade_type : Range(TradeSpecials),
     px : TradePrices, sz : TradeSizes, time : {Day0 * HoursPerDay + 1}]

\* the files: every list of at most MaxTrades rows, in every order
TradeFiles == UNION {[1..n -> TradeRows] : n \in 0..MaxTrades}

\* ["user", "coin", "side", "crossed", "special_trade_type"] of a row
KeyOf(r) ==
    [user |-> r.user, coin |-> r.coin, side |-> r.side,
     crossed |-> r.crossed, special_trade_type |-> r.special_trade_type]

Pos(seq, x) == CHOOSE i \in 1..Len(seq) : seq[i] = x

\* the place of a key in the lexicographic order groupby sorts by
KeyRank(k) ==
    ((((Pos(TradeUsers, k.user) - 1) * Len(TradeCoins)
        + (Pos(TradeCoins, k.coin) - 1)) * Len(TradeSides)
        + (Pos(TradeSides, k.side) - 1)) * Len(TradeCrossed)
        + (Pos(TradeCrossed, k.crossed) - 1)) * Len(TradeSpecials)
        + (Pos(TradeSpecials, k.special_trade_type) - 1)

\* the positions of the rows of group k
Group(rows, k) == {i \in 1..Len(rows) : KeyOf(rows[i]) = k}

RECURSIVE SumCol(_, _, _)
SumCol(rows, S, col) ==
    IF S = {} THEN 0
    ELSE LET i == CHOOSE j \in S : TRUE
         IN rows[i][col] + SumCol(rows, S \ {i}, col)

\* the group keys in the order groupby(...).agg(...).reset_index() lists them
GroupKeys(rows) ==
    LET ks == {KeyOf(rows[i]) : i \in 1..Len(rows)}
    IN [g \in 1..Cardinality(ks) |->
            CHOOSE k \in ks :
                Cardinality({j \in ks : KeyRank(j) < KeyRank(k)}) = g - 1]

\* df.groupby(keys)["user"].transform("count"): one value per raw row, at
\* the raw row's index, the size of that row's group
TransformCount(rows) ==
    [i \in 1..Len(rows) |-> Cardinality(Group(rows, KeyOf(rows[i])))]

\* a quotient num / den kept exact
Ratio(n, d) == [num |-> n, den |-> d]

\* agg({"px": "mean"}) weighted by sz
MeanPx_weighted(rows, S) ==
    LET w == [i \in 1..Len(rows) |-> [v |-> rows[i].px * rows[i].sz]]
    IN Ratio(SumCol(w, S, "v"), SumCol(rows, S, "sz"))

\* agg({"px": "mean"}): the sum of the group's prices over its row count
MeanPx(rows, S) == Ratio(SumCol(rows, S, "px"), Cardinality(S))

\* lines 205-225: the aggregate of the rows of one trades file. The column
\* group_count is assigned from a Series indexed like df, so row g of df_agg
\* (index g - 1 after reset_index) takes the value at raw row g
TradesAggregate(rows, date) ==
    LET ks == GroupKeys(rows)
        counts == TransformCount(rows)
    IN [g \in 1..Len(ks) |->
            LET S == Group(rows, ks[g])
                mean_px == MeanPx(rows, S)
                sum_sz == SumCol(rows, S, "sz")
            IN [user |-> ks[g].user, coin |-> ks[g].coin, side |-> ks[g].side,
                crossed |-> ks[g].crossed,
                special_trade_type |-> ks[g].special_trade_type,
                mean_px |-> mean_px,
                sum_sz |-> sum_sz,
                group_count |-> counts[g],
                time |-> date,
                usd_volume |-> Ratio(mean_px.num * sum_sz, mean_px.den)]]

\* a trades file and a partition date, nothing aggregated yet
InitTrades ==
    /\ Start({<<"non_mm_trades">>}, 0, {None}, {FALSE})
    /\ df \in TradeFiles
    /\ agg_date \in {Day0 - 1, Day0}
    /\ df_agg = <<>>
    /\ NoSnapshot
    /\ NoInstances
    /\ NoRequests

\* update_cache_tables takes the trades branch for the file
AggregateTrades ==
    /\ df_agg = <<>>
    /\ df_agg' = TradesAggregate(df, agg_date)
    /\ UNCHANGED <<df, agg_date, row, slippage, proc, api>>
    /\ UNCHANGED pipe

NextTrades == AggregateTrades

SpecTrades == InitTrades /\ [][NextTrades]_vars

\* the number of raw rows with the key of aggregate row g
RowsSharingKey(g) == Cardinality(Group(df, KeyOf(df_agg[g])))

\* C19: every row of the trades aggregate carries as group_count the number
\* of raw rows of the file that share its key, whatever the order of the
\* raw rows.
C19_GroupCount ==
    \A g \in 1..Len(df_agg) : df_agg[g].group_count = RowsSharingKey(g)

\* C20: the aggregate of a trades file has exactly one row per distinct key
\* of the raw rows; in each, mean_px is the sum of the group's prices over
\* the number of its rows, sum_sz the sum of its sizes, usd_volume the
\* product of the two, and time the date argument.
C20_TradesAggregation ==
    df_agg # <<>> =>
        /\ \A i \in 1..Len(df) :
            Cardinality({g \in 1..Len(df_agg) :
                            KeyOf(df_agg[g]) = KeyOf(df[i])}) = 1
        /\ \A g \in 1..Len(df_agg) :
            LET S == Group(df, KeyOf(df_agg[g]))
                a == df_agg[g]
            IN /\ S # {}
               /\ a.mean_px.num * Cardinality(S)
                    = SumCol(df, S, "px") * a.mean_px.den
               /\ a.sum_sz = SumCol(df, S, "sz")
               /\ a.usd_volume.num * a.mean_px.den
                    = a.mean_px.num * a.sum_sz * a.usd_volume.den
               /\ a.time = agg_date

\* C20 witness: a file of three rows with two keys, two rows of different
\* price and size in one group, aggregated for a date other than the rows'
\* own day.
C20_Witness ==
    /\ Len(df) = 3
    /\ Len(df_agg) = 2
    /\ agg_date # DateOf(df[1].time)
    /\ \E i, j \in 1..Len(df) :
        /\ i < j
        /\ KeyOf(df[i]) = KeyOf(df[j])
        /\ df[i].px # df[j].px
        /\ df[i].sz # df[j].sz

\* ------------------------------------------------ the slippage of one tier
\* ask levels of a snapshot at most
MaxLevels == 3
\* the largest nominal value priced
MaxNotional == 6

\* values of px and of sz of a level; the best bid may lie above the best ask
LevelPrices == {1, 2, 5}
LevelSizes == {1, 2}
BidPrices == {1, 5}
Levels == [px : LevelPrices, sz : LevelSizes]

\* the nominal values a snapshot is priced for
nominal_values == 1..MaxNotional

\* lines 172-176: the mean of the first bid price and the first ask price
Mid(levels) == Ratio(levels[1][1].px + levels[2][1].px, 2)

\* the snapshots: one bid level, and every list of one to MaxLevels ask
\* levels in every order
Snapshots ==
    {[levels |-> <<<<[px |-> b, sz |-> 1]>>, asks>>,
      mid |-> Mid(<<<<[px |-> b, sz |-> 1]>>, asks>>)] :
        b \in BidPrices,
        asks \in UNION {[1..n -> Levels] : n \in 1..MaxLevels}}

\* line 140 with > for >=
IsFilled_strict(filled_liquidity, total_liquidity_needed) ==
    filled_liquidity > total_liquidity_needed

\* lines 117 and 140: the liquidity reached covers the nominal value
IsFilled(filled_liquidity, total_liquidity_needed) ==
    filled_liquidity >= total_liquidity_needed

\* line 119 taking the whole level
RemainingLiquidity_whole(total_liquidity_needed, filled_liquidity, liquidity) ==
    liquidity

\* line 119: the part of the last level that is consumed
RemainingLiquidity(total_liquidity_needed, filled_liquidity, liquidity) ==
    total_liquidity_needed - filled_liquidity

\* lines 114-137: the loop from level i on, total being
\* total_liquidity_needed. weights[j] and avg are kept multiplied by total,
\* so that they stay integers:
\* weights[j] = liquidity_percentage_filled of level j * total,
\* avg = average_executed_price * total
RECURSIVE WalkAsks(_, _, _, _, _, _)
WalkAsks(ask_levels, total, i, filled_liquidity, avg, weights) ==
    IF i > Len(ask_levels)
    THEN [filled_liquidity |-> filled_liquidity, avg |-> avg,
          weights |-> weights]
    ELSE LET liquidity == ask_levels[i].px * ask_levels[i].sz
             price == ask_levels[i].px
         IN IF IsFilled(filled_liquidity + liquidity, total)
            THEN LET remaining_liquidity ==
                         RemainingLiquidity(total, filled_liquidity, liquidity)
                 IN [filled_liquidity |-> total,
                     avg |-> avg + remaining_liquidity * price,
                     weights |-> Append(weights, remaining_liquidity)]
            ELSE WalkAsks(ask_levels, total, i + 1,
                          filled_liquidity + liquidity,
                          avg + liquidity * price,
                          Append(weights, liquidity))

\* |x| of an exact quotient with a positive denominator
RatioAbs(x) == Ratio(IF x.num < 0 THEN 0 - x.num ELSE x.num, x.den)

\* lines 104-145: the locals of calculate_slippage at its return.
\* average_executed_price / mid - 1
\*   = (2 * avg - total * (bid + ask)) / (total * (bid + ask))
calculate_slippage(r, nominal_value) ==
    LET total_liquidity_needed == nominal_value
        w == WalkAsks(r.levels[2], total_liquidity_needed, 1, 0, 0, <<>>)
        den == total_liquidity_needed * r.mid.num
    IN [filled_liquidity |-> w.filled_liquidity,
        average_executed_price |-> Ratio(w.avg, total_liquidity_needed),
        weights |-> w.weights,
        slippage |->
            IF IsFilled(w.filled_liquidity, total_liquidity_needed)
            THEN RatioAbs(Ratio(w.avg * r.mid.den - den, den))
            ELSE Ratio(1, 1)]

\* a snapshot, not priced yet
InitSlippage ==
    /\ Start({<<"market_data">>}, 0, {Day0 - 2}, {FALSE})
    /\ NoTrades
    /\ row \in Snapshots
    /\ slippage = <<>>
    /\ NoInstances
    /\ NoRequests

\* lines 181-183: the snapshot is priced for every nominal value
PriceSnapshot ==
    /\ slippage = <<>>
    /\ slippage' = [n \in nominal_values |-> calculate_slippage(row, n)]
    /\ UNCHANGED <<df, agg_date, df_agg, row, proc, api>>
    /\ UNCHANGED pipe

NextSlippage == PriceSnapshot

SpecSlippage == InitSlippage /\ [][NextSlippage]_vars

\* exact quotients compared by cross-multiplication (denominators positive)
RatioEq(x, y) == x.num * y.den = y.num * x.den
RatioLeq(x, y) == x.num * y.den <= y.num * x.den

RECURSIVE SumSeq(_)
SumSeq(q) == IF q = <<>> THEN 0 ELSE Head(q) + SumSeq(Tail(q))

\* the ask levels of the snapshot and their total notional
Asks == row.levels[2]
AskNotional == SumSeq([i \in 1..Len(Asks) |-> Asks[i].px * Asks[i].sz])
BestBid == row.levels[1][1].px
BestAsk == Asks[1].px

\* |a / mid - 1| of an exact quotient a
SlipOf(a) ==
    RatioAbs(Ratio(a.num * row.mid.den - a.den * row.mid.num,
                   a.den * row.mid.num))

\* C21: when the total ask notional is below the nominal value the slippage
\* is exactly 1; when it reaches the nominal value, also exactly, the
\* slippage is |average_executed_price / mid - 1|.
C21_InsufficientLiquidity ==
    \A n \in DOMAIN slippage :
        IF AskNotional < n
        THEN slippage[n].slippage = Ratio(1, 1)
        ELSE /\ slippage[n].filled_liquidity = n
             /\ SumSeq(slippage[n].weights) = n
             /\ RatioEq(slippage[n].slippage,
                        SlipOf(slippage[n].average_executed_price))

\* C21 witness: a snapshot priced for a nominal value above its ask
\* notional, for one equal to it, and for one below it, the last two with a
\* slippage other than 1.
C21_Witness ==
    /\ slippage # <<>>
    /\ \E n \in DOMAIN slippage : AskNotional < n
    /\ \E n \in DOMAIN slippage :
        /\ AskNotional = n
        /\ ~RatioEq(slippage[n].slippage, Ratio(1, 1))
    /\ \E n \in DOMAIN slippage :
        /\ AskNotional > n
        /\ ~RatioEq(slippage[n].slippage, Ratio(1, 1))

\* C22: whenever the first ask level alone covers the nominal value, the
\* average executed price is the price of that level and the slippage is
\* |px1 / mid - 1|, whatever the deeper levels are.
C22_FirstLevelCovers ==
    \A n \in DOMAIN slippage :
        Asks[1].px * Asks[1].sz >= n =>
            /\ RatioEq(slippage[n].average_executed_price,
                       Ratio(Asks[1].px, 1))
            /\ RatioEq(slippage[n].slippage, SlipOf(Ratio(Asks[1].px, 1)))

\* C22 witness: a priced snapshot whose first ask level covers a nominal
\* value exactly and another one with room to spare, and whose deeper
\* levels have another price.
C22_Witness ==
    /\ slippage # <<>>
    /\ Len(Asks) = MaxLevels
    /\ \A i \in 2..Len(Asks) : Asks[i].px # Asks[1].px
    /\ \E n \in DOMAIN slippage : Asks[1].px * Asks[1].sz = n
    /\ \E n \in DOMAIN slippage : Asks[1].px * Asks[1].sz > n

\* the prices of the levels the call consumed
ConsumedPrices(n) == {Asks[i].px : i \in 1..Len(slippage[n].weights)}

\* C23: when the ask side can fill the nominal value, the average executed
\* price is the sum over the consumed levels of weight * price, where the
\* weights are non-negative and sum to exactly 1: px * sz / N for each level
\* but the last, and the rest of N over N for the last; so it lies between
\* the lowest and the highest consumed price.
C23_WeightedAverage ==
    \A n \in DOMAIN slippage :
        AskNotional >= n =>
            LET w == slippage[n].weights
                a == slippage[n].average_executed_price
                k == Len(w)
            IN /\ k \in 1..Len(Asks)
               /\ \A i \in 1..k : w[i] >= 0
               /\ SumSeq(w) = n
               /\ \A i \in 1..(k - 1) : w[i] = Asks[i].px * Asks[i].sz
               /\ w[k] = n - SumSeq(SubSeq(w, 1, k - 1))
               /\ RatioEq(a, Ratio(SumSeq([i \in 1..k |-> w[i] * Asks[i].px]),
                                   n))
               /\ \A x \in ConsumedPrices(n) :
                    (\A y \in ConsumedPrices(n) : x <= y) =>
                        RatioLeq(Ratio(x, 1), a)
               /\ \A x \in ConsumedPrices(n) :
                    (\A y \in ConsumedPrices(n) : x >= y) =>
                        RatioLeq(a, Ratio(x, 1))

\* C23 witness: a nominal value filled from three levels of three prices,
\* the last one consumed in part.
C23_Witness ==
    /\ slippage # <<>>
    /\ \E n \in DOMAIN slippage :
        /\ AskNotional > n
        /\ Len(slippage[n].weights) = 3
        /\ Cardinality(ConsumedPrices(n)) = 3
        /\ slippage[n].weights[3] < Asks[3].px * Asks[3].sz

\* C25: for a snapshot whose best bid is at most its best ask, the slippage
\* of every nominal value lies in [0, 1].
C25_SlippageAtMostOne ==
    \A n \in DOMAIN slippage :
        BestBid <= BestAsk =>
            /\ RatioLeq(Ratio(0, 1), slippage[n].slippage)
            /\ RatioLeq(slippage[n].slippage, Ratio(1, 1))

\* the ask levels are in ascending price order
AsksAscending == \A i \in 1..(Len(Asks) - 1) : Asks[i].px <= Asks[i + 1].px

\* C26: for a snapshot with ascending ask prices and a best bid at most its
\* best ask, the slippage does not decrease from a nominal value to a larger
\* one when the ask side can fill both.
C26_MonotoneInTier ==
    \A n1, n2 \in DOMAIN slippage :
        (/\ AsksAscending
         /\ BestBid <= BestAsk
         /\ n1 <= n2
         /\ AskNotional >= n2) =>
            RatioLeq(slippage[n1].slippage, slippage[n2].slippage)

\* C26 witness: an ascending snapshot with the bid below the ask, priced for
\* two nominal values it can fill, the larger with the strictly larger
\* slippage.
C26_Witness ==
    /\ slippage # <<>>
    /\ AsksAscending
    /\ BestBid < BestAsk
    /\ \E n1, n2 \in DOMAIN slippage :
        /\ n1 < n2
        /\ AskNotional >= n2
        /\ ~RatioLeq(slippage[n2].slippage, slippage[n1].slippage)

\* ------------------------------------------- instances of main() interleaved
\* instances started on the same database
MaxInstances == 2
Instances == 1..MaxInstances

\* the dataset the instances are configured with
SharedTable == tables[1]

\* one dataset left at Day0 - 2 or Day0 - 3 by a complete run; no instance
\* has read anything yet
InitShared ==
    /\ Start({<<"funding">>}, 0, {Day0 - 3, Day0 - 2}, {FALSE})
    /\ NoTrades
    /\ NoSnapshot
    /\ NoRequests
    /\ proc = [i \in Instances |->
                [pc |-> "idle", got |-> None, dates |-> <<>>, di |-> 0,
                 committed |-> {}]]

\* main lines 337-355 of instance i: configuration, watermark, date list
ReadWatermark(i) ==
    /\ proc[i].pc = "idle"
    /\ LET t == SharedTable
           got == Watermark(t)
           ds == generate_dates(StartDate(got, today), today)
           a == Alert("nothing", t, StartDate(got, today), None, "noop")
       IN /\ proc' = [proc EXCEPT ![i] =
                [@ EXCEPT !.pc = IF Len(DatesToProcess(ds)) = 0
                                 THEN "check" ELSE "date",
                          !.got = got, !.dates = ds, !.di = 1]]
          /\ alerts' = IF Len(ds) = 0 THEN alerts \cup {a} ELSE alerts
    /\ UNCHANGED <<today, slack_token, tables, raw, cache, book_raw, bucket,
                    tmp, pc, asset_coin_map, ti, latest_date, dates, di, hour,
                    ai, result, runNo, runDays, runEnds, commitLog, attempted,
                    lagging, checked, faults, budget, ticks>>
    /\ UNCHANGED <<df, agg_date, df_agg, row, slippage, api>>

\* main lines 355-380 of instance i: one iteration of the loop over dates[1:]
ProcessDateOf(i) ==
    /\ proc[i].pc = "date"
    /\ LET t == SharedTable
           date == DatesToProcess(proc[i].dates)[proc[i].di]
           file_name == FlatFile(table_to_file_name_map[t], date)
       IN \E o \in PartitionOutcomes(t, date) :
          \E n \in PayloadChoices(file_name, o) :
            LET r == process_file(raw[t], cache[t], tmp, file_name, date,
                                  FlatPayload(date, n), o)
                tail == AlertTail(o = "ok", t, date, "noop", "noop")
                cost == PartitionCost(t, date, o) + PayloadCost(file_name, o, n)
                last == proc[i].di = Len(DatesToProcess(proc[i].dates))
            IN /\ faults + cost <= budget
               /\ raw' = [raw EXCEPT ![t] = r.raw]
               /\ cache' = [cache EXCEPT ![t] = r.cache]
               /\ tmp' = r.tmp
               /\ bucket' = IF o = "fetch" THEN bucket
                            ELSE bucket \cup {[file |-> file_name, rows |-> n]}
               /\ alerts' = alerts \cup tail.alerts
               /\ proc' = [proc EXCEPT ![i] =
                    [@ EXCEPT !.pc = IF last THEN "check" ELSE "date",
                              !.di = IF last THEN @ ELSE @ + 1,
                              !.committed =
                                  IF o = "ok" /\ n > 0
                                  THEN @ \cup {date} ELSE @]]
    /\ UNCHANGED <<today, slack_token, tables, book_raw, pc, asset_coin_map,
                    ti, latest_date, dates, di, hour, ai, result, runNo,
                    runDays, runEnds, commitLog, attempted, lagging, checked,
                    faults, budget, ticks>>
    /\ UNCHANGED <<df, agg_date, df_agg, row, slippage, api>>

\* main lines 382-387 of instance i: the two maxima are compared, and the
\* instance ends
CheckOf(i) ==
    /\ proc[i].pc = "check"
    /\ LET t == SharedTable
           cache_max_date == get_latest_date(cache[t])
           raw_max_date == get_latest_date(raw[t])
           differ == /\ cache_max_date # None
                     /\ cache_max_date # DateOf(raw_max_date)
           a == Alert("divergence", t, cache_max_date, DateOf(raw_max_date),
                      "noop")
       IN alerts' = IF differ THEN alerts \cup {a} ELSE alerts
    /\ proc' = [proc EXCEPT ![i] = [@ EXCEPT !.pc = "done"]]
    /\ UNCHANGED <<today, slack_token, tables, raw, cache, book_raw, bucket,
                    tmp, pc, asset_coin_map, ti, latest_date, dates, di, hour,
                    ai, result, runNo, runDays, runEnds, commitLog, attempted,
                    lagging, checked, faults, budget, ticks>>
    /\ UNCHANGED <<df, agg_date, df_agg, row, slippage, api>>

NextShared ==
    \E i \in Instances : ReadWatermark(i) \/ ProcessDateOf(i) \/ CheckOf(i)

SpecShared == InitShared /\ [][NextShared]_vars

\* the instances that committed date d
Committers(d) == {i \in DOMAIN proc : d \in proc[i].committed}

\* the rows of date d in the shared cache table
CacheRowsOf(d) ==
    SelectSeq(cache[SharedTable], LAMBDA x : x.time = d)

\* C24: nothing keeps two instances apart: every instance that lists a date
\* appends its aggregate, so the cache table holds the rows of a date once
\* per instance that committed it, and twice when two instances that read
\* the same watermark both committed it.
C24_CommitPerInstance ==
    proc # <<>> =>
        \A d \in UNION {proc[i].committed : i \in DOMAIN proc} :
            Len(CacheRowsOf(d)) =
                Cardinality(Committers(d))
                    * Len(Aggregate(FlatPayload(d, MaxRows), d))

\* C24 witness: two instances read the same watermark, both committed the
\* same date, and the cache table holds every row of that date twice.
C24_Witness ==
    /\ proc # <<>>
    /\ \E i, j \in DOMAIN proc :
        /\ i # j
        /\ proc[i].got = proc[j].got
        /\ \E d \in proc[i].committed \cap proc[j].committed :
            LET once == Aggregate(FlatPayload(d, MaxRows), d)
            IN /\ once # <<>>
               /\ \A k \in 1..Len(once) :
                    Len(SelectSeq(CacheRowsOf(d), LAMBDA x : x = once[k])) = 2

\* ------------------------------------------------ claims on the run's alerts
\* C27: a "Data processing completed successfully" alert for a date of a
\* dataset is delivered only if the run committed cache rows of that date;
\* for the order-book dataset, not when every (hour, asset) partition of the
\* date failed.
C27_CompletedOnlyIfCommitted ==
    \A a \in alerts :
        (a.kind = "completed" /\ a.outcome = "sent") =>
            \E c \in CommittedIn(a.table, runNo) : c.date = a.date

\* the dates of the rows of a raw table
RawDates(t) == {DateOf(raw[t][i].time) : i \in 1..Len(raw[t])}

\* send_alert was called for the divergence of table t, whatever came of
\* the delivery
DivergenceRaised(t) ==
    \E a \in alerts : a.kind = "divergence" /\ a.table = t

\* one flat-daily dataset whose cache table is empty, and a Slack token
InitEmpty ==
    Start({<<"funding">>}, MaxFlatFaults, {None}, {TRUE}) /\ NoFile

SpecEmpty == InitEmpty /\ [][NextFlat]_vars

\* C28: the end-of-run check reports every state in which the raw table
\* holds dates the cache table lacks; here its case of an empty cache table:
\* once the check of a table has run with the raw table non-empty and the
\* cache table empty, send_alert was called for the divergence.
C28_CheckReportsEmptyCache ==
    \A t \in Range(checked) :
        (/\ pc # "crashed"
         /\ raw[t] # <<>>
         /\ cache[t] = <<>>
         /\ ~(RawDates(t) \subseteq CacheDates(t))) =>
            DivergenceRaised(t)

\* the files process_file was called for in this step
JustAttempted ==
    {attempted'[t][Len(attempted'[t])] :
        t \in {u \in AllTables : Len(attempted'[u]) = Len(attempted[u]) + 1}}

\* C29: when process_file has ended for a partition, by success or by an
\* exception, the file it downloaded to ../tmp is no longer there.
C29_TmpFileRemoved ==
    [][\A f \in JustAttempted : f \notin tmp']_vars

\* ------------------------------------------------ the API's response cache
\* rows the table holds at most
MaxDbRows == 2
\* the timer runs up to
MaxNow == 3
\* ttl=86400 of the TTLCache, in units of half a day
ttl == 2

\* key in cache, for a TTLCache: an entry past its expiry is not there
InCache(key) ==
    response_cache[key].present /\ now < response_cache[key].expires

\* get_data_from_cache: the stored data, or None
get_data_from_cache(key) ==
    IF InCache(key)
    THEN [none |-> FALSE, data |-> response_cache[key].data]
    ELSE [none |-> TRUE, data |-> NoData(key)]

\* add_data_to_cache: cache[key] = data, expiring ttl after now
add_data_to_cache(key, data) ==
    [response_cache EXCEPT ![key] =
        [present |-> TRUE, data |-> data, expires |-> now + ttl]]

\* "if cached_data:" of Python: None, 0 and [] are false
Truthy(cached_data, key) ==
    /\ ~cached_data.none
    /\ cached_data.data # NoData(key)

\* count(distinct user) and the per-day sums of the table as it is now
Query(key) ==
    IF key = "total_users" THEN db_rows
    ELSE [i \in 1..db_rows |-> [time |-> i, daily_usd_volume |-> 1]]

\* the body shared by the endpoints: the cached data if it is true, else
\* the query, whose result is stored and returned
Serve(key) ==
    LET cached_data == get_data_from_cache(key)
    IN /\ IF Truthy(cached_data, key)
          THEN /\ served' = [key |-> key, had |-> InCache(key),
                             stored |-> response_cache[key].data,
                             queried |-> FALSE,
                             value |-> cached_data.data]
               /\ UNCHANGED response_cache
          ELSE /\ served' = [key |-> key, had |-> InCache(key),
                             stored |-> response_cache[key].data,
                             queried |-> TRUE,
                             value |-> Query(key)]
               /\ response_cache' = add_data_to_cache(key, Query(key))
       /\ UNCHANGED <<db_rows, now>>
       /\ UNCHANGED <<df, agg_date, df_agg, row, slippage, proc>>
       /\ UNCHANGED pipe

\* GET /hyperliquid/total_users without filters
get_total_users == Serve("total_users")

\* GET /hyperliquid/daily_usd_volume without filters
get_daily_usd_volume == Serve("daily_usd_volume")

\* the pipeline commits one more row to non_mm_trades_cache
DbAppend ==
    /\ db_rows < MaxDbRows
    /\ db_rows' = db_rows + 1
    /\ UNCHANGED <<response_cache, now, served>>
    /\ UNCHANGED <<df, agg_date, df_agg, row, slippage, proc>>
    /\ UNCHANGED pipe

\* half a day passes
TimePasses ==
    /\ now < MaxNow
    /\ now' = now + 1
    /\ UNCHANGED <<response_cache, db_rows, served>>
    /\ UNCHANGED <<df, agg_date, df_agg, row, slippage, proc>>
    /\ UNCHANGED pipe

InitApi ==
    /\ Start({<<"non_mm_trades">>}, 0, {None}, {FALSE})
    /\ NoTrades
    /\ NoSnapshot
    /\ NoInstances
    /\ EmptyCache
    /\ db_rows \in 0..1

NextApi == get_total_users \/ get_daily_usd_volume \/ DbAppend \/ TimePasses

SpecApi == InitApi /\ [][NextApi]_vars

\* C30: a request whose key had a result stored within the TTL returns the
\* stored result and does not query the database, whatever the stored value
\* is, 0 and the empty list included.
C30_StoredResultServed ==
    served.had => (served.value = served.stored /\ ~served.queried)

====
